---- MODULE Spec2Model ----
(***************************************************************************)
(* A model of redis-clients: the client factories of src/redis.js (client  *)
(* caching, key building, count, clear, reset), the module factory of      *)
(* index.js and the command helpers of src/commands.js (set, get, hmset,   *)
(* hgetall), together with the part of the redis server and of the         *)
(* node_redis client the helpers rely on.                                  *)
(*                                                                         *)
(* Strings are sequences of one-character strings, so that joining,        *)
(* splitting, glob matching, JSON.stringify and JSON.parse are computed.   *)
(***************************************************************************)
EXTENDS Integers, Sequences, FiniteSets, TLC

VARIABLES
  exports,    \* the exports object of src/redis.js: _clients, _client,
              \* publisher, subscriber, defaults
  instances,  \* how many client objects redis.createClient has constructed;
              \* a client instance is identified by its construction number
  quitted,    \* the client instances on which quit() has been called
  store,      \* the redis server's keyspace: key -> stored value
  queue,      \* commands sent on a client and not yet replied to
  called,     \* per outstanding helper call, how often its callback ran
  settings,   \* history: the prefix and separator the factory calls have
              \* given: over the whole run (given), since the last reset (kept)
  hist,       \* history: store key -> the value passed to the last plain
              \* set/hmset that completed on it, with no write to the key,
              \* clear or reset since
  last        \* history: the last operation, its inputs and its outcome

vars == <<exports, instances, quitted, store, queue, called, settings, hist, last>>

----------------------------------------------------------------------------
(* Bounds of the model.                                                    *)

MaxClients == 7
MaxQueue == 1

----------------------------------------------------------------------------
(* Strings.                                                                *)

Null == 0

RECURSIVE JoinStr(_, _)
\* Array.prototype.join on an array of strings
JoinStr(list, sep) ==
  IF Len(list) = 0 THEN <<>>
  ELSE IF Len(list) = 1 THEN list[1]
  ELSE list[1] \o sep \o JoinStr(Tail(list), sep)

\* whether sub occurs in s at position i
OccursAt(s, sub, i) ==
  /\ i + Len(sub) - 1 <= Len(s)
  /\ \A j \in 1..Len(sub) : s[i + j - 1] = sub[j]

RECURSIVE SplitStr(_, _)
\* String.prototype.split with a non-empty separator
SplitStr(s, sep) ==
  LET hits == {i \in 1..Len(s) : OccursAt(s, sep, i)} IN
  IF hits = {} THEN <<s>>
  ELSE LET i == CHOOSE h \in hits : \A g \in hits : h <= g IN
       <<SubSeq(s, 1, i - 1)>> \o SplitStr(SubSeq(s, i + Len(sep), Len(s)), sep)

StartsWith(s, p) == Len(p) <= Len(s) /\ SubSeq(s, 1, Len(p)) = p

----------------------------------------------------------------------------
(* JavaScript values, tagged.                                              *)

VUndef == [t |-> "undefined"]
VNull == [t |-> "null"]
VStr(s) == [t |-> "str", s |-> s]
VNum(n) == [t |-> "num", n |-> n]
VArr(a) == [t |-> "arr", a |-> a]
\* an object is the sequence of its own properties [k, v], in insertion order
VObj(o) == [t |-> "obj", o |-> o]
VFn(name) == [t |-> "fn", f |-> name]

Digits == <<"0", "1", "2", "3", "4", "5", "6", "7", "8", "9">>

RECURSIVE NumToStr(_)
\* the decimal digits of a natural number
NumToStr(n) ==
  IF n < 10 THEN <<Digits[n + 1]>>
  ELSE NumToStr(n \div 10) \o <<Digits[(n % 10) + 1]>>

RECURSIVE ToStr(_)
\* String(v), and what Array.prototype.join makes of an element
ToStr(v) ==
  CASE v.t = "str" -> v.s
    [] v.t = "num" -> NumToStr(v.n)
    [] v.t = "arr" ->
         JoinStr([i \in 1..Len(v.a) |->
                    IF v.a[i].t \in {"null", "undefined"} THEN <<>>
                    ELSE ToStr(v.a[i])], <<",">>)
    [] v.t = "obj" -> <<"[", "o", "b", "j", "e", "c", "t", " ",
                        "O", "b", "j", "e", "c", "t", "]">>
    [] v.t = "null" -> <<"n", "u", "l", "l">>
    [] OTHER -> <<"u", "n", "d", "e", "f", "i", "n", "e", "d">>

\* the elements of an array as join writes them
JoinElems(list) ==
  [i \in 1..Len(list) |->
     IF list[i].t \in {"null", "undefined"} THEN <<>> ELSE ToStr(list[i])]

isFunction(x) == x.t = "fn"
isString(x) == x.t = "str"
isNumber(x) == x.t = "num"

\* whether a value is truthy: '' and 0, undefined and null are falsy
Truthy(x) ==
  CASE x.t = "str" -> x.s # <<>>
    [] x.t = "num" -> x.n # 0
    [] x.t \in {"undefined", "null"} -> FALSE
    [] OTHER -> TRUE

RECURSIVE compactV(_)
\* _.compact on an array of values
compactV(list) ==
  IF Len(list) = 0 THEN <<>>
  ELSE (IF Truthy(Head(list)) THEN <<Head(list)>> ELSE <<>>)
       \o compactV(Tail(list))

RECURSIVE DeepEql(_, _)
\* chai's eql: same type and same content; the order of an object's
\* properties does not count
DeepEql(x, y) ==
  /\ x.t = y.t
  /\ CASE x.t = "str" -> x.s = y.s
       [] x.t = "num" -> x.n = y.n
       [] x.t = "fn" -> x.f = y.f
       [] x.t = "arr" -> /\ Len(x.a) = Len(y.a)
                         /\ \A i \in 1..Len(x.a) : DeepEql(x.a[i], y.a[i])
       [] x.t = "obj" ->
            /\ {x.o[i].k : i \in 1..Len(x.o)} = {y.o[i].k : i \in 1..Len(y.o)}
            /\ \A i \in 1..Len(x.o), j \in 1..Len(y.o) :
                 x.o[i].k = y.o[j].k => DeepEql(x.o[i].v, y.o[j].v)
       [] OTHER -> TRUE

----------------------------------------------------------------------------
(* JSON.stringify and JSON.parse, on texts without white space, signs,     *)
(* fractions, exponents, true, false or escapes other than \" and \\.      *)

Quote == "\""
Backslash == "\\"

RECURSIVE Escaped(_)
Escaped(s) ==
  IF Len(s) = 0 THEN <<>>
  ELSE (IF Head(s) \in {Quote, Backslash} THEN <<Backslash, Head(s)>>
        ELSE <<Head(s)>>) \o Escaped(Tail(s))

Quoted(s) == <<Quote>> \o Escaped(s) \o <<Quote>>

RECURSIVE JSONText(_)
\* JSON.stringify of a string, a number, null, an array or an object; in an
\* array undefined and functions are written null, in an object they are
\* left out
JSONText(v) ==
  CASE v.t = "str" -> Quoted(v.s)
    [] v.t = "num" -> NumToStr(v.n)
    [] v.t = "arr" ->
         <<"[">> \o JoinStr([i \in 1..Len(v.a) |->
                    IF v.a[i].t \in {"undefined", "fn"} THEN <<"n", "u", "l", "l">>
                    ELSE JSONText(v.a[i])], <<",">>) \o <<"]">>
    [] v.t = "obj" ->
         LET kept == SelectSeq(v.o, LAMBDA m : m.v.t \notin {"undefined", "fn"})
         IN <<"{">> \o JoinStr([i \in 1..Len(kept) |->
                    Quoted(kept[i].k) \o <<":">> \o JSONText(kept[i].v)],
                    <<",">>) \o <<"}">>
    [] OTHER -> <<"n", "u", "l", "l">>

Failed == [ok |-> FALSE, v |-> VUndef, i |-> 0]
Parsed(v, i) == [ok |-> TRUE, v |-> v, i |-> i]

DigitAt(s, i) == i <= Len(s) /\ \E d \in 1..10 : Digits[d] = s[i]
DigitVal(c) == (CHOOSE d \in 1..10 : Digits[d] = c) - 1

RECURSIVE ParseDigits(_, _, _)
ParseDigits(s, i, n) ==
  IF DigitAt(s, i) THEN ParseDigits(s, i + 1, 10 * n + DigitVal(s[i]))
  ELSE Parsed(VNum(n), i)

\* a JSON number: 0, or digits that do not start with 0
ParseNumber(s, i) ==
  IF s[i] = "0" THEN Parsed(VNum(0), i + 1) ELSE ParseDigits(s, i, 0)

RECURSIVE ParseChars(_, _, _)
\* the characters of a JSON string up to its closing quote
ParseChars(s, i, acc) ==
  IF i > Len(s) THEN Failed
  ELSE IF s[i] = Quote THEN Parsed(VStr(acc), i + 1)
  ELSE IF s[i] = Backslash
       THEN IF i + 1 <= Len(s) /\ s[i + 1] \in {Quote, Backslash}
            THEN ParseChars(s, i + 2, Append(acc, s[i + 1]))
            ELSE Failed
  ELSE ParseChars(s, i + 1, Append(acc, s[i]))

ParseString(s, i) ==
  IF i <= Len(s) /\ s[i] = Quote THEN ParseChars(s, i + 1, <<>>) ELSE Failed

RECURSIVE ParseValue(_, _)
RECURSIVE ParseElements(_, _, _)
RECURSIVE ParseMembers(_, _, _)

ParseValue(s, i) ==
  IF i > Len(s) THEN Failed
  ELSE IF s[i] = Quote THEN ParseString(s, i)
  ELSE IF DigitAt(s, i) THEN ParseNumber(s, i)
  ELSE IF s[i] = "[" THEN
         IF i + 1 <= Len(s) /\ s[i + 1] = "]" THEN Parsed(VArr(<<>>), i + 2)
         ELSE ParseElements(s, i + 1, <<>>)
  ELSE IF s[i] = "{" THEN
         IF i + 1 <= Len(s) /\ s[i + 1] = "}" THEN Parsed(VObj(<<>>), i + 2)
         ELSE ParseMembers(s, i + 1, <<>>)
  ELSE IF OccursAt(s, <<"n", "u", "l", "l">>, i) THEN Parsed(VNull, i + 4)
  ELSE Failed

ParseElements(s, i, acc) ==
  LET r == ParseValue(s, i) IN
  IF ~r.ok \/ r.i > Len(s) THEN Failed
  ELSE IF s[r.i] = "," THEN ParseElements(s, r.i + 1, Append(acc, r.v))
  ELSE IF s[r.i] = "]" THEN Parsed(VArr(Append(acc, r.v)), r.i + 1)
  ELSE Failed

\* a later member of the same name replaces the earlier one
SetMember(o, k, v) ==
  IF \E j \in 1..Len(o) : o[j].k = k
  THEN [j \in 1..Len(o) |-> IF o[j].k = k THEN [k |-> k, v |-> v] ELSE o[j]]
  ELSE Append(o, [k |-> k, v |-> v])

ParseMembers(s, i, acc) ==
  LET k == ParseString(s, i) IN
  IF ~k.ok \/ k.i > Len(s) \/ s[k.i] # ":" THEN Failed
  ELSE LET r == ParseValue(s, k.i + 1) IN
       IF ~r.ok \/ r.i > Len(s) THEN Failed
       ELSE IF s[r.i] = ","
            THEN ParseMembers(s, r.i + 1, SetMember(acc, k.v.s, r.v))
       ELSE IF s[r.i] = "}"
            THEN Parsed(VObj(SetMember(acc, k.v.s, r.v)), r.i + 1)
       ELSE Failed

\* JSON.parse: the value of the whole text, or not ok where it throws
JSONParse(s) ==
  LET r == ParseValue(s, 1) IN
  IF r.ok /\ r.i = Len(s) + 1 THEN r ELSE Failed

----------------------------------------------------------------------------
(* src/redis.js: settings and client factories.                            *)

\* const defaults = { prefix: 'r', separator: ':', redis: {...} }
defaults == [prefix |-> <<"r">>, separator |-> <<":">>]

\* _.merge({}, redis.defaults, options) on the prefix and separator settings;
\* an option left out (written <<>>) keeps the current setting
merge(current, options) ==
  [prefix |-> IF options.prefix = <<>> THEN current.prefix ELSE options.prefix,
   separator |-> IF options.separator = <<>> THEN current.separator
                 ELSE options.separator]

\* the module state threaded through the calls of one handler
Module == [e |-> exports, n |-> instances]

\* whether createClient throws: a connection string whose protocol is not redis:
createClientThrows(options) == options = "url:http"

createClient_Cached(s, options) ==
  IF s.e._clients # <<>>
  THEN [e |-> s.e, n |-> s.n, client |-> s.e._clients[1]]
  ELSE LET id == s.n + 1 IN
       [e |-> [s.e EXCEPT !._clients = Append(@, id)], n |-> id, client |-> id]

\* exports.createClient: construct a client, remember it in _clients, return it
createClient(s, options) ==
  LET id == s.n + 1 IN
  [e |-> [s.e EXCEPT !._clients = Append(@, id)], n |-> id, client |-> id]

\* exports.pubsub: create the publisher and the subscriber if not cached
pubsub(s) ==
  LET p == IF s.e.publisher = Null THEN createClient(s, "none")
           ELSE [e |-> s.e, n |-> s.n, client |-> s.e.publisher]
      s1 == [e |-> [p.e EXCEPT !.publisher = p.client], n |-> p.n]
      q == IF s1.e.subscriber = Null THEN createClient(s1, "none")
           ELSE [e |-> s1.e, n |-> s1.n, client |-> s1.e.subscriber]
  IN [e |-> [q.e EXCEPT !.subscriber = q.client], n |-> q.n]

init_Always(s) ==
  LET c == createClient(s, "none")
      s2 == pubsub([e |-> [c.e EXCEPT !._client = c.client], n |-> c.n])
  IN [e |-> s2.e, n |-> s2.n, client |-> s2.e._client]

\* exports.init = exports.client: create the normal client if not cached,
\* ensure the pub/sub pair, return the normal client
init(s) ==
  LET c == IF s.e._client = Null THEN createClient(s, "none")
           ELSE [e |-> s.e, n |-> s.n, client |-> s.e._client]
      s2 == pubsub([e |-> [c.e EXCEPT !._client = c.client], n |-> c.n])
  IN [e |-> s2.e, n |-> s2.n, client |-> s2.e._client]

\* uuid.v1(): a generated identifier, five hyphen-joined groups
Uuids == {<<"u", "-", "u", "-", "u", "-", "u", "-", "u">>}

RECURSIVE concat_Reversed(_)
concat_Reversed(args) ==
  IF Len(args) = 0 THEN <<>>
  ELSE concat_Reversed(Tail(args))
       \o (IF Head(args).t = "arr" THEN Head(args).a ELSE <<Head(args)>>)

RECURSIVE concat(_)
\* [].concat(...args): array arguments are spread, the others appended
concat(args) ==
  IF Len(args) = 0 THEN <<>>
  ELSE (IF Head(args).t = "arr" THEN Head(args).a ELSE <<Head(args)>>)
       \o concat(Tail(args))

key_KeepsDefaults(e, args, id) ==
  LET k == IF Len(concat(args)) = 0 THEN <<VStr(id)>> ELSE concat(args)
  IN JoinStr(<<defaults.prefix>> \o JoinElems(k), defaults.separator)

\* exports.key on the module state e; id is what uuid.v1() returns when
\* it is called
key(e, args, id) ==
  LET k == IF Len(concat(args)) = 0 THEN <<VStr(id)>> ELSE concat(args)
  IN JoinStr(<<e.defaults.prefix>> \o JoinElems(k), e.defaults.separator)

reset_OnlyCached(e) ==
  [e |-> [_clients |-> <<>>, _client |-> Null, publisher |-> Null,
          subscriber |-> Null, defaults |-> defaults],
   quit |-> {e._client, e.publisher, e.subscriber} \ {Null}]

reset_KeepsClient(e) ==
  [e |-> [e EXCEPT !._clients = <<>>, !.defaults = defaults],
   quit |-> {e._clients[i] : i \in 1..Len(e._clients)}]

\* exports.reset = exports.quit: quit every client of _clients, forget the
\* cached clients, restore the default settings, empty _clients
reset(e) ==
  [e |-> [_clients |-> <<>>, _client |-> Null, publisher |-> Null,
          subscriber |-> Null, defaults |-> defaults],
   quit |-> {e._clients[i] : i \in 1..Len(e._clients)}]

RECURSIVE compact(_)
\* _.compact on an array of strings: the empty string is falsy
compact(list) ==
  IF Len(list) = 0 THEN <<>>
  ELSE (IF Head(list) = <<>> THEN <<>> ELSE <<Head(list)>>) \o compact(Tail(list))

RECURSIVE uniq(_)
\* _.uniq: the first occurrence of each element, in order
uniq(list) ==
  IF Len(list) = 0 THEN <<>>
  ELSE LET init0 == uniq(SubSeq(list, 1, Len(list) - 1))
           x == list[Len(list)]
       IN IF \E i \in 1..Len(init0) : init0[i] = x THEN init0
          ELSE Append(init0, x)

clearPattern_NoSeparator(e, pattern) ==
  e.defaults.prefix \o pattern \o <<"*">>

\* exports.clear, "prepare clear all key regex": the glob pattern sent to
\* KEYS for the pattern argument (<<>> when none is given)
clearPattern(e, pattern) ==
  LET p == compact(<<e.defaults.prefix, pattern>>) IN
  (IF Len(p) > 1 THEN JoinStr(p, e.defaults.separator)
   ELSE JoinStr(p, <<",">>)) \o <<"*">>

----------------------------------------------------------------------------
(* The redis server, and the commands in flight to it.                     *)

RECURSIVE Glob(_, _)
\* the glob match of KEYS: * is any run of characters, ? any one character
Glob(p, s) ==
  IF Len(p) = 0 THEN Len(s) = 0
  ELSE IF Head(p) = "*"
       THEN Glob(Tail(p), s) \/ (Len(s) > 0 /\ Glob(p, Tail(s)))
       ELSE /\ Len(s) > 0
            /\ (Head(p) = "?" \/ Head(p) = Head(s))
            /\ Glob(Tail(p), Tail(s))

\* a stored string value; ttl: whether it was set to expire
RString(s, ttl) == [t |-> "string", s |-> s, ttl |-> ttl]

\* a stored hash: its fields [k, v] in insertion order
RHash(h) == [t |-> "hash", h |-> h, ttl |-> FALSE]

Put(st, k, v) == [x \in DOMAIN st \cup {k} |-> IF x = k THEN v ELSE st[x]]
Del(st, ks) == [x \in DOMAIN st \ ks |-> st[x]]
Empty == [x \in {} |-> Null]

\* KEYS pattern
Keys(pattern) == {k \in DOMAIN store : Glob(pattern, k)}

\* a command in flight
Cmd0 ==
  [client |-> Null, cmd |-> "", slot |-> 0, fn |-> "", pattern |-> <<>>,
   keys |-> {}, patterns |-> <<>>, key |-> <<>>, args |-> <<>>,
   value |-> VUndef, arg |-> <<>>, raced |-> FALSE, defs |-> defaults,
   call |-> <<>>, has |-> FALSE]

Remove(q, i) == SubSeq(q, 1, i - 1) \o SubSeq(q, i + 1, Len(q))

\* node_redis replies to the commands of one client in the order sent
Ready(i) == \A j \in 1..(i - 1) : queue[j].client # queue[i].client

FreeSlot == CHOOSE s \in 1..MaxQueue : \A i \in 1..Len(queue) : queue[i].slot # s

NoCall == [fn |-> "", n |-> 0]

\* a write served while a transaction of clear is in flight
Raced(q) == [i \in 1..Len(q) |-> [q[i] EXCEPT !.raced = TRUE]]

Was == [c |-> exports._client, p |-> exports.publisher,
        s |-> exports.subscriber]

Last0 ==
  [op |-> "", made |-> 0, threw |-> FALSE, client |-> Null, publisher |-> Null,
   subscriber |-> Null, was |-> Was, key |-> <<>>, args |-> <<>>,
   id |-> <<>>, fn |-> "", err |-> "none", res |-> VUndef, arg |-> <<>>,
   pattern |-> <<>>, before |-> Empty, raced |-> FALSE, sent |-> 0,
   value |-> VUndef, defs |-> defaults, call |-> <<>>, has |-> FALSE,
   expect |-> VUndef, reply |-> "none", ran |-> 0]

----------------------------------------------------------------------------
(* The operations.                                                         *)

Init ==
  /\ exports = [_clients |-> <<>>, _client |-> Null, publisher |-> Null,
                subscriber |-> Null, defaults |-> defaults]
  /\ instances = 0
  /\ quitted = {}
  /\ store = Empty
  /\ queue = <<>>
  /\ called = [s \in 1..MaxQueue |-> NoCall]
  /\ settings = [given |-> defaults, kept |-> defaults]
  /\ hist = Empty
  /\ last = Last0

\* index.js: require('redis-clients')(options)
Factory(options) ==
  LET r == init([e |-> [exports EXCEPT !.defaults = merge(@, options)],
                 n |-> instances]) IN
  /\ r.n <= MaxClients
  /\ exports' = r.e
  /\ instances' = r.n
  /\ last' = [Last0 EXCEPT !.op = "factory", !.made = r.n - instances,
                           !.client = r.client]
  /\ settings' = [given |-> merge(settings.given, options),
                  kept |-> merge(settings.kept, options)]
  /\ UNCHANGED <<quitted, store, queue, called, hist>>

\* redis.createClient(options)
CreateClient(options) ==
  IF createClientThrows(options)
  THEN /\ last' = [Last0 EXCEPT !.op = "createClient", !.threw = TRUE]
       /\ UNCHANGED <<exports, instances, quitted, store, queue, called, settings, hist>>
  ELSE LET r == createClient(Module, options) IN
       /\ r.n <= MaxClients
       /\ exports' = r.e
       /\ instances' = r.n
       /\ last' = [Last0 EXCEPT !.op = "createClient", !.made = r.n - instances,
                                !.client = r.client]
       /\ UNCHANGED <<quitted, store, queue, called, settings, hist>>

\* redis.client() / redis.init()
Client ==
  LET r == init(Module) IN
  /\ r.n <= MaxClients
  /\ exports' = r.e
  /\ instances' = r.n
  /\ last' = [Last0 EXCEPT !.op = "client", !.made = r.n - instances,
                           !.client = r.client]
  /\ UNCHANGED <<quitted, store, queue, called, settings, hist>>

\* redis.pubsub()
Pubsub ==
  LET r == pubsub(Module) IN
  /\ r.n <= MaxClients
  /\ exports' = r.e
  /\ instances' = r.n
  /\ last' = [Last0 EXCEPT !.op = "pubsub", !.made = r.n - instances,
                           !.publisher = r.e.publisher,
                           !.subscriber = r.e.subscriber]
  /\ UNCHANGED <<quitted, store, queue, called, settings, hist>>

\* redis.multi(): a multi object of the normal client; nothing is sent
\* before its exec
Multi ==
  LET r == init(Module) IN
  /\ r.n <= MaxClients
  /\ exports' = r.e
  /\ instances' = r.n
  /\ last' = [Last0 EXCEPT !.op = "multi", !.made = r.n - instances,
                           !.client = r.client]
  /\ UNCHANGED <<quitted, store, queue, called, settings, hist>>

\* redis.key(...args)
Key(args, id) ==
  /\ last' = [Last0 EXCEPT !.op = "key", !.args = args, !.id = id,
                           !.key = key(exports, args, id)]
  /\ UNCHANGED <<exports, instances, quitted, store, queue, called, settings, hist>>

\* redis.reset() / redis.quit()
Reset ==
  LET r == reset(exports) IN
  /\ exports' = r.e
  /\ quitted' = quitted \cup r.quit
  /\ hist' = Empty
  /\ settings' = [settings EXCEPT !.kept = defaults]
  /\ last' = [Last0 EXCEPT !.op = "reset"]
  /\ UNCHANGED <<instances, store, queue, called>>

\* redis.clear(pattern, done), redis.clear(done): pattern <<>> stands for no
\* pattern; the KEYS command is sent on the normal client
Clear(pattern, hasDone) ==
  LET r == init(Module)
      slot == FreeSlot IN
  /\ Len(queue) < MaxQueue
  /\ r.n <= MaxClients
  /\ exports' = r.e
  /\ instances' = r.n
  /\ queue' = Append(queue,
       [Cmd0 EXCEPT !.client = r.client, !.cmd = "keys", !.slot = slot,
                    !.fn = IF hasDone THEN "done" ELSE "",
                    !.pattern = clearPattern(exports, pattern),
                    !.arg = pattern, !.defs = exports.defaults])
  /\ called' = [called EXCEPT ![slot] = [fn |-> IF hasDone THEN "done" ELSE "",
                                         n |-> 0]]
  /\ last' = [Last0 EXCEPT !.op = "clear", !.made = r.n - instances,
                           !.arg = pattern, !.sent = 1,
                           !.pattern = clearPattern(exports, pattern)]
  /\ UNCHANGED <<quitted, store, settings, hist>>

\* the callback clear gives to keys (src/redis.js 379-401): on an error
\* done(error); otherwise a multi of the normal client, one del per listed
\* key, and exec(done)
ClearKeysReply(i, err) ==
  LET c == queue[i]
      r == init(Module) IN
  /\ c.cmd = "keys"
  /\ Ready(i)
  /\ IF err # "none"
     THEN /\ queue' = Remove(queue, i)
          /\ called' = [called EXCEPT ![c.slot].n =
                          IF c.fn = "" THEN @ ELSE @ + 1]
          /\ last' = [Last0 EXCEPT !.op = "done:clear", !.err = err,
                                   !.fn = c.fn, !.arg = c.arg,
                                   !.pattern = c.pattern]
          /\ UNCHANGED <<exports, instances>>
     ELSE /\ r.n <= MaxClients
          /\ exports' = r.e
          /\ instances' = r.n
          /\ queue' = Append(Remove(queue, i),
               [c EXCEPT !.client = r.client, !.cmd = "exec",
                         !.keys = Keys(c.pattern), !.raced = FALSE])
          /\ last' = [Last0 EXCEPT !.op = "keys:clear", !.arg = c.arg,
                                   !.made = r.n - instances, !.sent = 1,
                                   !.pattern = c.pattern]
          /\ UNCHANGED called
  /\ UNCHANGED <<quitted, store, settings, hist>>

\* the reply to the exec of clear: the listed keys are deleted in one
\* transaction and done is called with the client's error and the replies
ClearExecReply(i, err) ==
  LET c == queue[i] IN
  /\ c.cmd = "exec"
  /\ Ready(i)
  /\ queue' = Remove(queue, i)
  /\ store' = IF err = "none" THEN Del(store, c.keys) ELSE store
  /\ hist' = IF err = "none" THEN Del(hist, c.keys) ELSE hist
  /\ called' = [called EXCEPT ![c.slot].n = IF c.fn = "" THEN @ ELSE @ + 1]
  /\ last' = [Last0 EXCEPT !.op = "done:clear", !.err = err, !.fn = c.fn,
                           !.arg = c.arg, !.pattern = c.pattern,
                           !.before = store, !.raced = c.raced,
                           !.defs = c.defs]
  /\ UNCHANGED <<exports, instances, quitted, settings>>

\* client.set(k, '1') on the raw client client() returns, or a write by any
\* other connection, served at once
RawSet(k) ==
  /\ store' = Put(store, k, RString(<<"1">>, FALSE))
  /\ hist' = Del(hist, {k})
  /\ queue' = Raced(queue)
  /\ last' = [Last0 EXCEPT !.op = "rawset", !.key = k]
  /\ UNCHANGED <<exports, instances, quitted, called, settings>>

\* redis.count(...patterns, done): patterns is [].concat(...patterns) without
\* the callback. With patterns, one eval per pattern in a multi of the normal
\* client and exec; with none, done gets an error made here.
Count(patterns, hasDone) ==
  LET pats == uniq(compact(patterns))
      r == init(Module)
      slot == FreeSlot IN
  IF Len(pats) > 0
  THEN /\ Len(queue) < MaxQueue
       /\ r.n <= MaxClients
       /\ exports' = r.e
       /\ instances' = r.n
       /\ queue' = Append(queue,
            [Cmd0 EXCEPT !.client = r.client, !.cmd = "count", !.slot = slot,
                         !.fn = IF hasDone THEN "done" ELSE "",
                         !.patterns = pats])
       /\ called' = [called EXCEPT ![slot] =
                       [fn |-> IF hasDone THEN "done" ELSE "", n |-> 0]]
       /\ last' = [Last0 EXCEPT !.op = "count", !.made = r.n - instances,
                                !.sent = 1]
       /\ UNCHANGED <<quitted, store, settings, hist>>
  ELSE /\ last' = [Last0 EXCEPT !.op = "count",
                                !.fn = IF hasDone THEN "done" ELSE "",
                                !.err = "Missing Count Patterns",
                                !.threw = ~hasDone]
       /\ UNCHANGED <<exports, instances, quitted, store, queue, called, settings, hist>>

\* the callback count gives to exec (src/redis.js 284-293): done gets the
\* client's error and one count, or the array of counts of several patterns
CountReply(i, err) ==
  LET c == queue[i]
      counts == [j \in 1..Len(c.patterns) |->
                   VNum(Cardinality(Keys(c.patterns[j])))]
      count == IF err # "none" THEN VUndef
               ELSE IF Len(counts) > 1 THEN VArr(counts) ELSE counts[1] IN
  /\ c.cmd = "count"
  /\ Ready(i)
  /\ queue' = Remove(queue, i)
  /\ called' = [called EXCEPT ![c.slot].n = IF c.fn = "" THEN @ ELSE @ + 1]
  /\ last' = [Last0 EXCEPT !.op = "done:count", !.err = err, !.fn = c.fn,
                           !.res = count, !.threw = (c.fn = "")]
  /\ UNCHANGED <<exports, instances, quitted, store, settings, hist>>

\* info(done): INFO is sent on the normal client
Info(hasDone) ==
  LET r == init(Module)
      slot == FreeSlot IN
  /\ Len(queue) < MaxQueue
  /\ r.n <= MaxClients
  /\ exports' = r.e
  /\ instances' = r.n
  /\ queue' = Append(queue,
       [Cmd0 EXCEPT !.client = r.client, !.cmd = "info", !.slot = slot,
                    !.fn = IF hasDone THEN "done" ELSE ""])
  /\ called' = [called EXCEPT ![slot] = [fn |-> IF hasDone THEN "done" ELSE "",
                                         n |-> 0]]
  /\ last' = [Last0 EXCEPT !.op = "info", !.made = r.n - instances,
                           !.sent = 1]
  /\ UNCHANGED <<quitted, store, settings, hist>>

\* the callback info gives to client.info: done(error, _client.server_info),
\* read from the normal client cached at that moment. It throws when there
\* is none (a reset came first) or no done; a client made since the command
\* was sent may not have its server_info yet
InfoReply(i, err, ready) ==
  LET c == queue[i]
      threw == exports._client = Null \/ c.fn = "" IN
  /\ c.cmd = "info"
  /\ Ready(i)
  /\ exports._client = c.client => ready
  /\ queue' = Remove(queue, i)
  /\ called' = [called EXCEPT ![c.slot].n = IF threw THEN @ ELSE @ + 1]
  /\ last' = [Last0 EXCEPT !.op = "done:info", !.threw = threw,
                           !.fn = IF threw THEN "" ELSE c.fn,
                           !.err = IF threw THEN "none" ELSE err,
                           !.res = IF threw \/ ~ready THEN VUndef
                                   ELSE VObj(<<>>),
                           !.client = exports._client]
  /\ UNCHANGED <<exports, instances, quitted, store, settings, hist>>

----------------------------------------------------------------------------
(* src/commands.js, and what the server does with its commands.            *)

\* stringify: a string as it is, any other value as JSON.stringify writes it
\* (undefined for undefined and for a function)
stringify(value) ==
  IF isString(value) THEN value
  ELSE IF value.t \in {"undefined", "fn"} THEN VUndef
  ELSE VStr(JSONText(value))

\* parse: what JSON.parse makes of the reply, or the reply itself where
\* JSON.parse throws; JSON.parse(null) is null, JSON.parse(undefined) throws
parse(value) ==
  IF value.t = "str"
  THEN (IF JSONParse(value.s).ok THEN JSONParse(value.s).v ELSE value)
  ELSE value

setCallback_DoneOnly(expiry, time, strategy, done) ==
  IF isFunction(done) THEN done.f ELSE ""

\* set, "callback": the last function among expiry, time, strategy and done,
\* noop (written "") when there is none
setCallback(expiry, time, strategy, done) ==
  IF isFunction(done) THEN done.f
  ELSE IF isFunction(strategy) THEN strategy.f
  ELSE IF isFunction(time) THEN time.f
  ELSE IF isFunction(expiry) THEN expiry.f
  ELSE ""

\* set, "prepare" and "compact": the arguments handed to client.set before
\* the callback
setArgs(_key, value, expiry, time, strategy) ==
  compactV(<<VStr(_key), stringify(value),
             IF Truthy(expiry) /\ isString(expiry) THEN expiry ELSE VUndef,
             IF Truthy(time) /\ isNumber(time) THEN time ELSE VUndef,
             IF Truthy(strategy) /\ isString(strategy) THEN strategy
             ELSE VUndef>>)

RECURSIVE flatInto(_, _, _)
\* flat(value): each leaf of a plain object under the dot-joined names of
\* the path to it; a leaf is anything but a non-empty plain object
flatInto(out, o, prev) ==
  IF Len(o) = 0 THEN out
  ELSE LET m == Head(o)
           newKey == IF prev = <<>> THEN m.k ELSE prev \o <<".">> \o m.k
       IN flatInto(IF m.v.t = "obj" /\ Len(m.v.o) > 0
                   THEN flatInto(out, m.v.o, newKey)
                   ELSE SetMember(out, newKey, m.v),
                   Tail(o), prev)

flat(value) == VObj(flatInto(<<>>, value.o, <<>>))

RECURSIVE unflatInsert(_, _, _)
\* unflatten, one key: walk the dot-separated names, creating objects on the
\* way; a key whose path runs through a leaf is left out
unflatInsert(o, path, v) ==
  LET k1 == path[1]
      has == \E j \in 1..Len(o) : o[j].k = k1
      cur == o[CHOOSE j \in 1..Len(o) : o[j].k = k1].v
  IN IF Len(path) = 1 THEN SetMember(o, k1, v)
     ELSE IF has /\ cur.t # "obj" THEN o
     ELSE SetMember(o, k1,
            VObj(unflatInsert(IF has THEN cur.o ELSE <<>>, Tail(path), v)))

RECURSIVE unflatInto(_, _)
unflatInto(out, o) ==
  IF Len(o) = 0 THEN out
  ELSE unflatInto(unflatInsert(out, SplitStr(Head(o).k, <<".">>), Head(o).v),
                  Tail(o))

\* unflat(value): a value that is no object is returned as it is
unflat(value) ==
  IF value.t = "obj" THEN VObj(unflatInto(<<>>, value.o)) ELSE value

\* whether a string is a positive integer, as SET wants after EX
PositiveInt(s) ==
  /\ Len(s) > 0
  /\ \A i \in 1..Len(s) : DigitAt(s, i)
  /\ \E i \in 1..Len(s) : s[i] # "0"

RECURSIVE SetOptions(_, _, _)
\* the options of SET after key and value: EX seconds, NX, XX
SetOptions(a, i, acc) ==
  IF i > Len(a) THEN acc
  ELSE IF a[i] = <<"E", "X">>
       THEN IF i + 1 <= Len(a) /\ PositiveInt(a[i + 1]) /\ ~acc.ex
            THEN SetOptions(a, i + 2, [acc EXCEPT !.ex = TRUE])
            ELSE [acc EXCEPT !.ok = FALSE]
  ELSE IF a[i] = <<"N", "X">> /\ ~acc.xx
       THEN SetOptions(a, i + 1, [acc EXCEPT !.nx = TRUE])
  ELSE IF a[i] = <<"X", "X">> /\ ~acc.nx
       THEN SetOptions(a, i + 1, [acc EXCEPT !.xx = TRUE])
  ELSE [acc EXCEPT !.ok = FALSE]

\* SET on the keyspace st with the arguments sent, written as strings:
\* the error replied and the keyspace afterwards
ServeSet(st, args) ==
  LET a == [i \in 1..Len(args) |-> ToStr(args[i])]
      o == SetOptions(a, 3, [ok |-> TRUE, ex |-> FALSE, nx |-> FALSE,
                             xx |-> FALSE])
  IN IF Len(a) < 2
     THEN [err |-> "ERR wrong number of arguments", st |-> st, wrote |-> FALSE]
     ELSE IF ~o.ok THEN [err |-> "ERR syntax error", st |-> st, wrote |-> FALSE]
     ELSE IF (o.nx /\ a[1] \in DOMAIN st) \/ (o.xx /\ a[1] \notin DOMAIN st)
          THEN [err |-> "none", st |-> st, wrote |-> FALSE]
     ELSE [err |-> "none", st |-> Put(st, a[1], RString(a[2], o.ex)),
           wrote |-> TRUE]

\* GET: the string stored, null for no key, an error for a hash
ServeGet(st, k) ==
  IF k \notin DOMAIN st THEN [err |-> "none", v |-> VNull]
  ELSE IF st[k].t # "string" THEN [err |-> "WRONGTYPE", v |-> VUndef]
  ELSE [err |-> "none", v |-> VStr(st[k].s)]

RECURSIVE SetFields(_, _)
SetFields(h, o) ==
  IF Len(o) = 0 THEN h
  ELSE SetFields(SetMember(h, Head(o).k, ToStr(Head(o).v)), Tail(o))

\* HMSET with the fields of the object node_redis is given, the values
\* written as strings: the fields are added to the hash the key holds
ServeHmset(st, k, o) ==
  IF Len(o) = 0
  THEN [err |-> "ERR wrong number of arguments", st |-> st]
  ELSE IF k \in DOMAIN st /\ st[k].t # "hash"
       THEN [err |-> "WRONGTYPE", st |-> st]
  ELSE [err |-> "none",
        st |-> Put(st, k, RHash(SetFields(IF k \in DOMAIN st THEN st[k].h
                                          ELSE <<>>, o)))]

\* HGETALL as node_redis replies: an object of strings, null for no key
ServeHgetall(st, k) ==
  IF k \notin DOMAIN st THEN [err |-> "none", v |-> VNull]
  ELSE IF st[k].t # "hash" THEN [err |-> "WRONGTYPE", v |-> VUndef]
  ELSE [err |-> "none",
        v |-> VObj([i \in 1..Len(st[k].h) |->
                      [k |-> st[k].h[i].k, v |-> VStr(st[k].h[i].v)]])]

DoNothing_InitsClient(op, fn, args) ==
  LET r == init(Module) IN
  /\ r.n <= MaxClients
  /\ exports' = r.e
  /\ instances' = r.n
  /\ last' = [Last0 EXCEPT !.op = op, !.fn = fn.f, !.args = args, !.ran = 1,
                           !.made = r.n - instances]
  /\ UNCHANGED <<quitted, store, queue, called, settings, hist>>

\* a do-nothing call with the arguments args: the function given in place of
\* the key or the value is called at once, with no argument, and the helper
\* returns
DoNothing(op, fn, args) ==
  /\ last' = [Last0 EXCEPT !.op = op, !.fn = fn.f, !.args = args, !.ran = 1]
  /\ UNCHANGED <<exports, instances, quitted, store, queue, called, settings,
                 hist>>

\* a call with the arguments args sends the command c of a helper on the
\* normal client
Send(r, c, op, args) ==
  LET slot == FreeSlot IN
  /\ Len(queue) < MaxQueue
  /\ r.n <= MaxClients
  /\ exports' = r.e
  /\ instances' = r.n
  /\ queue' = Append(queue, [c EXCEPT !.client = r.client, !.slot = slot])
  /\ called' = [called EXCEPT ![slot] = [fn |-> c.fn, n |-> 0]]
  /\ last' = [Last0 EXCEPT !.op = op, !.made = r.n - instances, !.sent = 1,
                           !.key = c.key, !.call = c.call, !.args = args]
  /\ UNCHANGED <<quitted, store, settings, hist>>

\* commands.set(key, value, expiry, time, strategy, done)
Set(k, value, expiry, time, strategy, done) ==
  IF isFunction(k)
  THEN DoNothing("set", k, <<k, value, expiry, time, strategy, done>>)
  ELSE IF isFunction(value)
  THEN DoNothing("set", value, <<k, value, expiry, time, strategy, done>>)
  ELSE LET r == init(Module)
           _key == key(r.e, <<k>>, <<>>)
       IN Send(r, [Cmd0 EXCEPT !.cmd = "set", !.key = _key,
                     !.args = setArgs(_key, value, expiry, time, strategy),
                     !.fn = setCallback(expiry, time, strategy, done),
                     !.value = value,
                     !.call = <<value, expiry, time, strategy, done>>], "set",
               <<k, value, expiry, time, strategy, done>>)

\* the callback set gives to client.set: _cb(error, value)
SetReply(i, err) ==
  LET c == queue[i]
      s == IF err = "none" THEN ServeSet(store, c.args)
           ELSE [err |-> err, st |-> store, wrote |-> FALSE]
  IN
  /\ c.cmd = "set"
  /\ Ready(i)
  /\ queue' = IF s.wrote THEN Raced(Remove(queue, i)) ELSE Remove(queue, i)
  /\ store' = s.st
  /\ hist' = IF s.wrote THEN Put(hist, c.key, c.value) ELSE hist
  /\ called' = [called EXCEPT ![c.slot].n = IF c.fn = "" THEN @ ELSE @ + 1]
  /\ last' = [Last0 EXCEPT !.op = "done:set", !.fn = c.fn, !.err = s.err,
                           !.reply = s.err, !.res = c.value, !.key = c.key,
                           !.call = c.call]
  /\ UNCHANGED <<exports, instances, quitted, settings>>

\* commands.get(key, done)
Get(k, done) ==
  IF isFunction(k) THEN DoNothing("get", k, <<k, done>>)
  ELSE LET r == init(Module)
           _key == key(r.e, <<k>>, <<>>)
       IN Send(r, [Cmd0 EXCEPT !.cmd = "get", !.key = _key,
                     !.fn = IF isFunction(done) THEN done.f ELSE "",
                     !.has = _key \in DOMAIN hist,
                     !.value = IF _key \in DOMAIN hist THEN hist[_key]
                               ELSE VUndef,
                     !.call = <<done>>], "get", <<k, done>>)

\* the callback get gives to client.get: _cb(error, parse(value))
GetReply(i, err) ==
  LET c == queue[i]
      s == IF err = "none" THEN ServeGet(store, c.key)
           ELSE [err |-> err, v |-> VUndef]
  IN
  /\ c.cmd = "get"
  /\ Ready(i)
  /\ queue' = Remove(queue, i)
  /\ called' = [called EXCEPT ![c.slot].n = IF c.fn = "" THEN @ ELSE @ + 1]
  /\ last' = [Last0 EXCEPT !.op = "done:get", !.fn = c.fn, !.err = s.err,
                           !.reply = s.err, !.res = parse(s.v), !.key = c.key,
                           !.has = /\ c.has
                                   /\ ~c.raced
                                   /\ c.key \in DOMAIN hist
                                   /\ hist[c.key] = c.value,
                           !.expect = c.value]
  /\ UNCHANGED <<exports, instances, quitted, store, settings, hist>>

\* commands.hmset(key, value, done)
Hmset(k, value, done) ==
  IF isFunction(k) THEN DoNothing("hmset", k, <<k, value, done>>)
  ELSE IF isFunction(value) THEN DoNothing("hmset", value, <<k, value, done>>)
  ELSE LET r == init(Module)
       IN Send(r, [Cmd0 EXCEPT !.cmd = "hmset", !.key = key(r.e, <<k>>, <<>>),
                     !.args = <<flat(value)>>,
                     !.fn = IF isFunction(done) THEN done.f ELSE "",
                     !.value = value, !.call = <<value, done>>], "hmset",
               <<k, value, done>>)

\* the callback hmset gives to client.hmset: _cb(error, value)
HmsetReply(i, err) ==
  LET c == queue[i]
      s == IF err = "none" THEN ServeHmset(store, c.key, c.args[1].o)
           ELSE [err |-> err, st |-> store]
  IN
  /\ c.cmd = "hmset"
  /\ Ready(i)
  /\ queue' = IF s.err = "none" THEN Raced(Remove(queue, i))
              ELSE Remove(queue, i)
  /\ store' = s.st
  /\ hist' = IF s.err = "none" THEN Put(hist, c.key, c.value) ELSE hist
  /\ called' = [called EXCEPT ![c.slot].n = IF c.fn = "" THEN @ ELSE @ + 1]
  /\ last' = [Last0 EXCEPT !.op = "done:hmset", !.fn = c.fn, !.err = s.err,
                           !.reply = s.err, !.res = c.value, !.key = c.key,
                           !.call = c.call]
  /\ UNCHANGED <<exports, instances, quitted, settings>>

\* commands.hgetall(key, done)
Hgetall(k, done) ==
  IF isFunction(k) THEN DoNothing("hgetall", k, <<k, done>>)
  ELSE LET r == init(Module)
           _key == key(r.e, <<k>>, <<>>)
       IN Send(r, [Cmd0 EXCEPT !.cmd = "hgetall", !.key = _key,
                     !.fn = IF isFunction(done) THEN done.f ELSE "",
                     !.has = _key \in DOMAIN hist,
                     !.value = IF _key \in DOMAIN hist THEN hist[_key]
                               ELSE VUndef,
                     !.call = <<done>>], "hgetall", <<k, done>>)

\* the callback hgetall gives to client.hgetall: _cb(error, unflat(value))
HgetallReply(i, err) ==
  LET c == queue[i]
      s == IF err = "none" THEN ServeHgetall(store, c.key)
           ELSE [err |-> err, v |-> VUndef]
  IN
  /\ c.cmd = "hgetall"
  /\ Ready(i)
  /\ queue' = Remove(queue, i)
  /\ called' = [called EXCEPT ![c.slot].n = IF c.fn = "" THEN @ ELSE @ + 1]
  /\ last' = [Last0 EXCEPT !.op = "done:hgetall", !.fn = c.fn, !.err = s.err,
                           !.reply = s.err, !.res = unflat(s.v), !.key = c.key,
                           !.has = /\ c.has
                                   /\ ~c.raced
                                   /\ c.key \in DOMAIN hist
                                   /\ hist[c.key] = c.value,
                           !.expect = c.value]
  /\ UNCHANGED <<exports, instances, quitted, store, settings, hist>>

\* the server drops a key that was set to expire
Expire(k) ==
  /\ k \in DOMAIN store
  /\ store[k].ttl
  /\ store' = Del(store, {k})
  /\ hist' = Del(hist, {k})
  /\ last' = [Last0 EXCEPT !.op = "expire", !.key = k]
  /\ UNCHANGED <<exports, instances, quitted, queue, called, settings>>

----------------------------------------------------------------------------
(* The inputs of the operations, and the specification of the client       *)
(* factories with key, count and clear.                                    *)

ab == <<"a", "b">>
users == <<"u", "s", "e", "r", "s">>
likes == <<"l", "i", "k", "e", "s">>
vegetables == <<"v", "e", "g", "e", "t", "a", "b", "l", "e", "s">>

\* no options, and the custom prefix and separator of the README
FactoryOptions ==
  {[prefix |-> <<>>, separator |-> <<>>],
   [prefix |-> <<"q">>, separator |-> <<"-">>]}

ClientOptions == {"none", "url:redis", "url:http"}

KeyArgs ==
  {<<>>, <<VStr(ab)>>, <<VArr(<<VStr(users), VStr(ab)>>)>>,
   <<VStr(users), VStr(likes), VStr(vegetables)>>,
   <<VStr(users), VArr(<<VStr(likes), VStr(ab)>>)>>, <<VArr(<<>>)>>}

ClearPatterns == {<<>>, <<"a">>, <<"a", "*">>}

RawKeys == {<<"r", ":", "a">>, <<"r", ":", "b">>, <<"x">>, <<"q", "-", "a">>}

CountPatterns == {<<>>, <<<<"r", ":", "*">>>>, <<<<"r", ":", "*">>, <<"x">>>>}

Errors == {"none", "client"}

\* the client factories and key
Next ==
  \/ \E o \in FactoryOptions : Factory(o)
  \/ \E o \in ClientOptions : CreateClient(o)
  \/ Client
  \/ Pubsub
  \/ Multi
  \/ \E a \in KeyArgs, id \in Uuids : Key(a, id)
  \/ Reset

Spec == Init /\ [][Next]_vars

\* the operations of src/redis.js and index.js that the settings pass
\* through, on a server nobody else writes to
NextOps ==
  \/ \E o \in FactoryOptions : Factory(o)
  \/ Client
  \/ Pubsub
  \/ Key(<<VStr(ab)>>, <<>>)
  \/ Reset
  \/ Clear(<<>>, TRUE)
  \/ \E i \in 1..Len(queue), err \in Errors : ClearKeysReply(i, err)
  \/ \E i \in 1..Len(queue), err \in Errors : ClearExecReply(i, err)
  \/ \E p \in CountPatterns : Count(p, TRUE)
  \/ \E i \in 1..Len(queue), err \in Errors : CountReply(i, err)

SpecOps == Init /\ [][NextOps]_vars

\* the values given to set: strings, a number, an array, a plain object
SetValues ==
  {VStr(ab), VStr(<<"1", "2">>), VNum(12), VArr(<<VStr(ab), VNum(1)>>),
   VObj(<<[k |-> <<"a">>, v |-> VStr(<<"x">>)]>>)}

\* the values given to hmset: flat and nested objects of strings and numbers
HmsetValues ==
  {VObj(<<[k |-> <<"a">>, v |-> VStr(<<"x">>)]>>),
   VObj(<<[k |-> <<"b">>, v |-> VNum(1)]>>),
   VObj(<<[k |-> <<"a">>,
           v |-> VObj(<<[k |-> <<"b">>, v |-> VStr(<<"y">>)]>>)]>>)}

cb == VFn("cb")

\* the helpers of src/commands.js against the server, with the calls of the
\* tests: set(key, value, done), get(key, done), hmset(key, value, done),
\* hgetall(key, done)
NextCmd ==
  \/ \E v \in SetValues : Set(VStr(ab), v, cb, VUndef, VUndef, VUndef)
  \/ \E i \in 1..Len(queue), err \in Errors : SetReply(i, err)
  \/ Get(VStr(ab), cb)
  \/ \E i \in 1..Len(queue), err \in Errors : GetReply(i, err)
  \/ \E v \in HmsetValues : Hmset(VStr(users), v, cb)
  \/ \E i \in 1..Len(queue), err \in Errors : HmsetReply(i, err)
  \/ Hgetall(VStr(users), cb)
  \/ \E i \in 1..Len(queue), err \in Errors : HgetallReply(i, err)
  \/ Reset

SpecCmd == Init /\ [][NextCmd]_vars

EX == VStr(<<"E", "X">>)
NX == VStr(<<"N", "X">>)

\* the arguments of set after the key: set(k, v, cb), set(k, v, 'EX', 1, cb),
\* set(k, v, 'EX', 1, 'NX', cb), set(k, v, 'NX', cb) and set(k, v), for a
\* string and for the empty string
SetCalls ==
  {<<v, cb, VUndef, VUndef, VUndef>> : v \in {VStr(ab), VStr(<<>>)}}
  \cup {<<v, EX, VNum(1), cb, VUndef>> : v \in {VStr(ab), VStr(<<>>)}}
  \cup {<<v, EX, VNum(1), NX, cb>> : v \in {VStr(ab), VStr(<<>>)}}
  \cup {<<VStr(ab), NX, cb, VUndef, VUndef>>,
        <<VStr(ab), VUndef, VUndef, VUndef, VUndef>>,
        <<VFn("value"), VUndef, VUndef, VUndef, VUndef>>}

HmsetCalls ==
  {<<VObj(<<[k |-> <<"a">>, v |-> VStr(<<"x">>)]>>), cb>>,
   <<VObj(<<>>), cb>>,
   <<VObj(<<[k |-> <<"a">>, v |-> VStr(<<"x">>)]>>), VUndef>>}

\* set and hmset in every form of call, and the replies to them
NextCallbacks ==
  \/ \E c \in SetCalls : Set(VStr(ab), c[1], c[2], c[3], c[4], c[5])
  \/ \E i \in 1..Len(queue), err \in Errors : SetReply(i, err)
  \/ \E c \in HmsetCalls : Hmset(VStr(users), c[1], c[2])
  \/ \E i \in 1..Len(queue), err \in Errors : HmsetReply(i, err)
  \/ \E k \in DOMAIN store : Expire(k)
  \/ Reset

SpecCallbacks == Init /\ [][NextCallbacks]_vars

\* the calls of set, get, hmset and hgetall with a callback in place of the
\* key or of the value (set(cb), set(key, cb), ...), next to calls that send
GuardCalls ==
  {<<cb, VUndef, VUndef>>, <<VStr(ab), cb, VUndef>>,
   <<VStr(ab), VObj(<<[k |-> <<"a">>, v |-> VStr(<<"x">>)]>>), cb>>}

NextGuards ==
  \/ \E c \in GuardCalls : Set(c[1], c[2], c[3], VUndef, VUndef, VUndef)
  \/ \E i \in 1..Len(queue), err \in Errors : SetReply(i, err)
  \/ \E c \in GuardCalls : Get(c[1], c[2])
  \/ \E i \in 1..Len(queue), err \in Errors : GetReply(i, err)
  \/ \E c \in GuardCalls : Hmset(c[1], c[2], c[3])
  \/ \E i \in 1..Len(queue), err \in Errors : HmsetReply(i, err)
  \/ \E c \in GuardCalls : Hgetall(c[1], c[2])
  \/ \E i \in 1..Len(queue), err \in Errors : HgetallReply(i, err)
  \/ Reset

SpecGuards == Init /\ [][NextGuards]_vars

\* every operation of the module, in every order, resets between them
NextAll ==
  \/ Client
  \/ Pubsub
  \/ Multi
  \/ Set(VStr(ab), VStr(ab), cb, VUndef, VUndef, VUndef)
  \/ \E i \in 1..Len(queue), err \in Errors : SetReply(i, err)
  \/ Get(VStr(ab), cb)
  \/ \E i \in 1..Len(queue), err \in Errors : GetReply(i, err)
  \/ Hmset(VStr(users), VObj(<<[k |-> <<"a">>, v |-> VStr(<<"x">>)]>>), cb)
  \/ \E i \in 1..Len(queue), err \in Errors : HmsetReply(i, err)
  \/ Hgetall(VStr(users), cb)
  \/ \E i \in 1..Len(queue), err \in Errors : HgetallReply(i, err)
  \/ Count(<<<<"r", ":", "*">>>>, TRUE)
  \/ \E i \in 1..Len(queue), err \in Errors : CountReply(i, err)
  \/ Clear(<<>>, TRUE)
  \/ \E i \in 1..Len(queue), err \in Errors : ClearKeysReply(i, err)
  \/ \E i \in 1..Len(queue), err \in Errors : ClearExecReply(i, err)
  \/ Info(TRUE)
  \/ \E i \in 1..Len(queue), err \in Errors, ready \in BOOLEAN :
       InfoReply(i, err, ready)
  \/ Reset

SpecAll == Init /\ [][NextAll]_vars

\* clear against a server that holds data and is written to meanwhile
NextStore ==
  \/ \E o \in FactoryOptions : Factory(o)
  \/ Reset
  \/ \E p \in ClearPatterns : Clear(p, TRUE)
  \/ \E i \in 1..Len(queue), err \in Errors : ClearKeysReply(i, err)
  \/ \E i \in 1..Len(queue), err \in Errors : ClearExecReply(i, err)
  \/ \E k \in RawKeys : RawSet(k)

SpecStore == Init /\ [][NextStore]_vars

----------------------------------------------------------------------------
(* Properties of the client factories (Spec).                              *)

Range(q) == {q[i] : i \in 1..Len(q)}

Absent(x) == IF x = Null THEN 1 ELSE 0

\* C1: between two resets client()/init() returns the one cached normal
\* client and pubsub() the one cached publisher and subscriber: a cached
\* instance is returned as it is and no operation but reset replaces it, an
\* instance is created only for a slot that was empty, and the normal client,
\* the publisher and the subscriber are pairwise distinct.
C1_CachedInstances ==
  /\ last.op # "reset" =>
       /\ last.was.c # Null => exports._client = last.was.c
       /\ last.was.p # Null => exports.publisher = last.was.p
       /\ last.was.s # Null => exports.subscriber = last.was.s
  /\ last.op = "client" =>
       /\ last.client = exports._client
       /\ last.client # Null
       /\ last.made = Absent(last.was.c) + Absent(last.was.p) + Absent(last.was.s)
  /\ last.op = "pubsub" =>
       /\ last.publisher = exports.publisher
       /\ last.subscriber = exports.subscriber
       /\ last.publisher # Null /\ last.subscriber # Null
       /\ last.made = Absent(last.was.p) + Absent(last.was.s)
  /\ \A x, y \in {<<"c", exports._client>>, <<"p", exports.publisher>>,
                  <<"s", exports.subscriber>>} :
       (x[1] # y[1] /\ x[2] # Null) => x[2] # y[2]

\* a second client() call, answered from the cache
C1_Witness ==
  /\ last.op = "client"
  /\ last.made = 0
  /\ last.was.c # Null
  /\ last.client = last.was.c

\* C2: when reset()/quit() returns, quit has been called on every client
\* created so far, the cached clients are cleared and _clients is empty; no
\* client that client(), pubsub() or createClient return afterwards, and no
\* cached client, is one that was quit.
C2_ResetQuitsAll ==
  /\ last.op = "reset" =>
       /\ quitted = 1..instances
       /\ exports._client = Null
       /\ exports.publisher = Null
       /\ exports.subscriber = Null
       /\ exports._clients = <<>>
  /\ \A c \in {last.client, last.publisher, last.subscriber, exports._client,
               exports.publisher, exports.subscriber} : c \notin quitted

\* a client() call that creates its three clients anew after a reset that
\* quit the three cached clients and one obtained from createClient
C2_Witness ==
  /\ last.op = "client"
  /\ last.made = 3
  /\ Cardinality(quitted) >= 4
  /\ last.client \notin quitted

RECURSIVE Flattened(_)
\* the strings of the arguments of key in order, those of an array argument
\* in the array's order
Flattened(args) ==
  IF Len(args) = 0 THEN <<>>
  ELSE LET h == args[1] IN
       (IF h.t = "arr" THEN [i \in 1..Len(h.a) |-> h.a[i].s] ELSE <<h.s>>)
       \o Flattened(Tail(args))

Colon(s) == JoinStr(s, <<":">>)

\* key(...args) is the prefix and the flattened arguments in order, joined by
\* the separator, and the README's examples under the defaults
KeyOfArguments ==
  (last.op = "key" /\ Len(Flattened(last.args)) > 0) =>
    /\ SplitStr(last.key, exports.defaults.separator)
         = <<exports.defaults.prefix>> \o Flattened(last.args)
    /\ exports.defaults = defaults =>
         /\ last.args = <<VStr(ab)>> => last.key = Colon(<<<<"r">>, ab>>)
         /\ last.args = <<VArr(<<VStr(users), VStr(ab)>>)>>
              => last.key = Colon(<<<<"r">>, users, ab>>)
         /\ last.args = <<VStr(users), VStr(likes), VStr(vegetables)>>
              => last.key = Colon(<<<<"r">>, users, likes, vegetables>>)

Contains(s, sub) == \E i \in 1..Len(s) : OccursAt(s, sub, i)

\* C4 as stated: key of arguments as above, and key() with no argument has
\* exactly two separator-delimited segments.
C4_Original ==
  /\ KeyOfArguments
  /\ (last.op = "key" /\ Len(Flattened(last.args)) = 0) =>
       Len(SplitStr(last.key, exports.defaults.separator)) = 2

\* C4 amended: key of arguments as above; key() with no argument is the
\* prefix, the separator and one generated identifier, which makes two
\* separator-delimited segments when the separator occurs neither in the
\* prefix nor in the identifier (as under the defaults).
C4_KeyBuilt ==
  /\ KeyOfArguments
  /\ (last.op = "key" /\ Len(Flattened(last.args)) = 0) =>
       /\ last.id \in Uuids
       /\ last.key = exports.defaults.prefix \o exports.defaults.separator
                       \o last.id
       /\ (~Contains(last.id, exports.defaults.separator)
           /\ ~Contains(exports.defaults.prefix, exports.defaults.separator))
            => Len(SplitStr(last.key, exports.defaults.separator)) = 2

\* key() with no argument under the default settings: two segments
C4_Witness ==
  /\ last.op = "key"
  /\ last.args = <<>>
  /\ exports.defaults = defaults
  /\ Len(SplitStr(last.key, <<":">>)) = 2

----------------------------------------------------------------------------
(* Properties of the settings (SpecOps).                                   *)

\* C5 as stated: every key built after the factory was given a prefix and a
\* separator uses them, whatever was called in between, reset included.
C5_Original ==
  last.op = "key" =>
    last.key = JoinStr(<<settings.given.prefix>> \o Flattened(last.args),
                       settings.given.separator)

\* C5 amended: every key is built with the prefix and separator the factory
\* was given since the last reset, whatever sequence of client(), pubsub(),
\* clear() and count() calls happened in between; reset() restores the
\* default prefix r and separator : for the keys built after it.
C5_SettingsKept ==
  last.op = "key" =>
    last.key = JoinStr(<<settings.kept.prefix>> \o Flattened(last.args),
                       settings.kept.separator)

\* a key built with the custom settings while a clear or count is in flight
C5_Witness ==
  /\ last.op = "key"
  /\ last.key = <<"q", "-", "a", "b">>
  /\ Len(queue) > 0

----------------------------------------------------------------------------
(* Properties of clear (SpecStore).                                        *)

ClearDone ==
  last.op = "done:clear" /\ last.fn = "done" /\ last.err = "none" /\ ~last.raced

\* C6: when the done of clear(done) is called without error (and nobody
\* wrote meanwhile) the store holds no key at all.
C6_ClearAllEmptiesStore ==
  (ClearDone /\ last.arg = <<>>) => DOMAIN store = {}

\* the keys clear(pattern) is to delete according to the claim: those that
\* start with prefix + separator + pattern
StartsWithPattern(k) ==
  StartsWith(k, last.defs.prefix \o last.defs.separator \o last.arg)

\* the keys that match the glob prefix + separator + pattern + '*'
MatchesPattern(k) ==
  Glob(last.defs.prefix \o last.defs.separator \o last.arg \o <<"*">>, k)

\* C7 as stated: with nobody writing meanwhile, clear(pattern, done) deletes
\* exactly the keys that start with prefix + separator + pattern.
C7_Original ==
  (ClearDone /\ last.arg # <<>>) =>
    /\ DOMAIN store \subseteq DOMAIN last.before
    /\ \A k \in DOMAIN last.before :
         IF StartsWithPattern(k) THEN k \notin DOMAIN store
         ELSE k \in DOMAIN store /\ store[k] = last.before[k]

\* C7 amended: with nobody writing meanwhile, clear(pattern, done) deletes
\* exactly the keys that match the glob prefix + separator + pattern + '*'
\* (for a pattern without * or ?, the keys that start with prefix + separator
\* + pattern); every other key is still present with its value unchanged.
C7_ClearDeletesMatches ==
  (ClearDone /\ last.arg # <<>>) =>
    /\ DOMAIN store \subseteq DOMAIN last.before
    /\ \A k \in DOMAIN last.before :
         /\ IF MatchesPattern(k) THEN k \notin DOMAIN store
            ELSE k \in DOMAIN store /\ store[k] = last.before[k]
         /\ (~Contains(last.arg, <<"*">>) /\ ~Contains(last.arg, <<"?">>))
              => (MatchesPattern(k) <=> StartsWithPattern(k))

\* clear('a') deleted r:a and kept r:b and x
C7_Witness ==
  /\ ClearDone
  /\ last.arg = <<"a">>
  /\ <<"r", ":", "a">> \in DOMAIN last.before
  /\ DOMAIN store = {<<"r", ":", "b">>, <<"x">>}

\* the value a get or hgetall was to find: the key was last written by a
\* completed set or hmset, nothing wrote to it since, and the client
\* delivered the server's reply
RoundTrip(op) == last.op = op /\ last.has /\ last.err # "client"

\* C8: after set(k, v, done) has completed without error, with no write to
\* k, clear or reset in between, get(k, done) calls back with no error and
\* a value equal to v, of the same type as v.
C8_SetGetRoundTrip ==
  RoundTrip("done:get") =>
    last.err = "none" /\ DeepEql(last.res, last.expect)

\* C9: after hmset(k, v, done) has completed without error, with no write
\* to k, clear or reset in between, hgetall(k, done) calls back with no
\* error and an object equal to v, with the same nesting structure.
C9_HmsetHgetallRoundTrip ==
  RoundTrip("done:hgetall") =>
    last.err = "none" /\ DeepEql(last.res, last.expect)

\* the callback a call of set or hmset was given, "" for none
Supplied(call) ==
  IF \E i \in 2..Len(call) : isFunction(call[i])
  THEN call[CHOOSE i \in 2..Len(call) : isFunction(call[i])].f
  ELSE ""

\* the slots of the commands in flight
InFlight == {queue[i].slot : i \in 1..Len(queue)}

\* C10: the callback given to set, in whichever of the positions expiry,
\* time, strategy or done, and the callback given to hmset, is not called
\* before the store's reply and is called exactly once on it, with the
\* client's error (none when the value was stored) and the original value.
C10_CallbackOnce ==
  /\ \A s \in 1..MaxQueue :
        /\ called[s].n <= 1
        /\ s \in InFlight => called[s].n = 0
        /\ (s \notin InFlight /\ called[s].fn # "") => called[s].n = 1
  /\ \A i \in 1..Len(queue) :
        called[queue[i].slot].fn = Supplied(queue[i].call)
  /\ last.op \in {"done:set", "done:hmset"} =>
        /\ last.fn = Supplied(last.call)
        /\ last.res = last.call[1]
        /\ last.err = "none" =>
              \/ NX \in Range(last.call)
              \/ /\ last.key \in DOMAIN store
                 /\ last.op = "done:set" =>
                       store[last.key].s = stringify(last.res).s
                 /\ last.op = "done:hmset" =>
                       \A j \in 1..Len(flat(last.res).o) :
                         flat(last.res).o[j].k \in
                           {store[last.key].h[x].k :
                              x \in 1..Len(store[last.key].h)}

\* set(k, v, 'EX', 1, cb) and set(k, v, 'EX', 1, 'NX', cb) have called cb
\* back, and so has a set whose value the server refused
C10_Witness ==
  /\ last.op = "done:set"
  /\ last.fn = "cb"
  /\ isFunction(last.call[4]) \/ isFunction(last.call[5])
  /\ called[1].n = 1

\* a call of a helper with a function in place of the key, or of set or
\* hmset with a function in place of the value
Guarded(l) ==
  /\ l.op \in {"set", "get", "hmset", "hgetall"}
  /\ Len(l.args) >= 2
  /\ \/ isFunction(l.args[1])
     \/ l.op \in {"set", "hmset"} /\ isFunction(l.args[2])

\* the function a guarded call was given in place of the key or the value
GuardFn(l) == IF isFunction(l.args[1]) THEN l.args[1].f ELSE l.args[2].f

\* C11: set(cb), set(key, cb), get(cb), hmset(cb), hmset(key, cb) and
\* hgetall(cb) do nothing: the callback is called exactly once with no
\* error and no result, no client is created, no command is sent and the
\* store is unchanged.
C11_DoNothing ==
  [][Guarded(last') =>
       /\ last'.fn = GuardFn(last') /\ last'.ran = 1
       /\ last'.err = "none" /\ last'.res = VUndef
       /\ instances' = instances /\ exports' = exports /\ last'.made = 0
       /\ queue' = queue /\ called' = called /\ last'.sent = 0
       /\ store' = store /\ quitted' = quitted]_vars

\* hmset(key, cb) was called after a reset while the store held data: cb
\* ran and there is still no client
C11_Witness ==
  /\ Guarded(last)
  /\ last.op = "hmset"
  /\ ~isFunction(last.args[1])
  /\ last.ran = 1
  /\ exports._client = Null
  /\ DOMAIN store # {}

\* the errors the underlying client hands to a callback: a failed
\* connection and the error replies of the server
ClientErrors ==
  {"client", "ERR wrong number of arguments", "ERR syntax error", "WRONGTYPE"}

\* C12: every error that a callback of set, get, hmset, hgetall, count,
\* clear or info receives is an error produced by the underlying client,
\* passed through unchanged; the wrapper never delivers an error of its own
\* making.
C12_ErrorsPassedThrough ==
  (last.fn # "" /\ last.err # "none") => last.err \in ClientErrors

\* C13: the listing of the matching keys and their deletion act as one
\* atomic step: when done is called without error, every key matching the
\* pattern that was in the store when the deletions executed is gone, also
\* when another client wrote matching keys while the clear was in progress.
C13_ClearAtomic ==
  (last.op = "done:clear" /\ last.err = "none") =>
    \A k \in DOMAIN last.before :
      Glob(last.pattern, k) => k \notin DOMAIN store

\* the commands of q that were not in flight in p
Issued(p, q) ==
  {q[i] : i \in {j \in 1..Len(q) :
                  \A x \in 1..Len(p) :
                    p[x].slot # q[j].slot \/ p[x].cmd # q[j].cmd}}

\* C14: the module never sends a command on a client after quit has been
\* called on it: each command it issues, whatever the order of client(),
\* pubsub(), multi(), set, get, hmset, hgetall, count, clear, info and reset,
\* goes to a client created after the most recent reset.
C14_NoCommandAfterQuit ==
  [][\A c \in Issued(queue, queue') :
       /\ c.client \notin quitted'
       /\ c.client \in Range(exports'._clients)]_vars

\* a reset came while a clear was waiting for its key listing: the
\* transaction is in flight on a client made after the reset, the client
\* the listing went to has quit
C14_Witness ==
  /\ last.op = "keys:clear"
  /\ last.made > 0
  /\ quitted # {}
  /\ \E i \in 1..Len(queue) :
       queue[i].cmd = "exec" /\ queue[i].client \notin quitted

====
